---------------------------- MODULE Spec2Model ----------------------------
(***************************************************************************)
(* A model of the TUTGAK stitcher: the stitching controller                *)
(* (Stitcher.stitch), the canvas compositor (Stitcher.__paste_image), the  *)
(* RANSAC estimator (HomographyCalculator.ransac), the least-squares fit   *)
(* (HomographyCalculator.calculate_homography) and the brightness shift    *)
(* (Util.mean_shift_gray).                                                 *)
(*                                                                         *)
(* Images are arrays of BGRA pixels.  An image is a record                 *)
(*   [h, w, px] with px a function from <<y, x>> (0-based) to a 4-tuple    *)
(* <<B, G, R, A>> of channel values.  The canvas (full_image) is float64   *)
(* in the source; its channel values are kept here as exact fractions      *)
(* num/den with one denominator `den` for the whole canvas.                *)
(***************************************************************************)
EXTENDS Integers, Sequences, FiniteSets, TLC

VARIABLES
    \* ---- Stitcher object (stitcher.py:65-80) ----
    history,                          \* self.history: sequence of ImageRecords
    full_image,                       \* self.full_image: NoImage or the canvas
    legacy_paste,                     \* self.legacy_paste
    new_image_percentage,             \* self.new_image_percentage, as [num, den]
    stitch_with_whole_image_on_fail,  \* self.stitch_with_whole_image_on_fail
    max_iterations_before_fail,       \* self.max_iterations_before_fail
    initial_random_point_count,       \* self.initial_random_point_count
    \* ---- the running stitch call (stitcher.py:108-277) ----
    pc,                   \* "idle" (no call running), "loop" (at the while test),
                          \* "found" (after the break), "paste" (before the paste)
    whole_image,          \* the whole_image parameter of the running pass
    i,                    \* the loop index i
    random_point_count,   \* the local random_point_count
    matcher,              \* matcher chosen by the last attempt: "none", "flann", "bf"
    ret,                  \* outcome of the last call: "none", "True", "False", "raise"
    \* ---- bookkeeping of the running call (not program state) ----
    first_whole,          \* whole_image as given by the caller
    passes,               \* passes (runs of the attempt loop) started by the call
    attempts,             \* loop bodies entered in the running pass
    shrinks,              \* attempts of the pass so far that shrank the sample size
    history0,             \* self.history when the caller's call began
    full_image0,          \* self.full_image when the caller's call began
    pasted,               \* the arguments of the call's __paste_image, once made
    \* ---- HomographyCalculator.ransac (homography_calculator.py:77-123) ----
    matches,              \* the matches argument: [ndim, n]
    r_count,              \* the random_point_count argument
    r_iterations,         \* the iterations argument
    r_pc,                 \* "off", "loop" (at the while test), "returned", "raised"
    r_i,                  \* the local i
    r_rounds,             \* loop bodies entered so far (not program state)
    r_last,               \* the last round: [did, rank], rank that of its candidate
    r_errors_of,          \* the array the last round asked the errors of
    best_inliers,         \* the local best_inliers
    r_result,             \* "none" (nothing yet), None, or the exception
    \* ---- HomographyCalculator.calculate_homography called directly ----
    h_pairs,              \* number of rows of the pairs argument
    h_result,             \* "none" (not called yet), "H" or the exception
    \* ---- Util.mean_shift_gray (util.py:26-61) ----
    ms_image,             \* the caller's array given as the image argument
    ms_image0,            \* its content when the call was made
    ms_mean,              \* the dest_mean argument
    ms_result             \* NoImage or the returned image

stitcherVars == <<history, full_image, legacy_paste, new_image_percentage,
                  stitch_with_whole_image_on_fail, max_iterations_before_fail,
                  initial_random_point_count>>
callVars     == <<pc, whole_image, i, random_point_count, matcher, ret>>
bookVars     == <<first_whole, passes, attempts, shrinks, history0, full_image0,
                  pasted>>
ransacVars   == <<matches, r_count, r_iterations, r_pc, r_i, r_rounds, r_last,
                  r_errors_of, best_inliers, r_result>>
fitVars      == <<h_pairs, h_result>>
shiftVars    == <<ms_image, ms_image0, ms_mean, ms_result>>
vars == <<stitcherVars, callVars, bookVars, ransacVars, fitVars, shiftVars>>

\* Python's None where a homography or an inlier set is expected.
None == "None"

Min(a, b) == IF a < b THEN a ELSE b
Max(a, b) == IF a > b THEN a ELSE b

(***************************************************************************)
(* Bounds of the model.                                                    *)
(***************************************************************************)
MaxFrames == 3                \* frames stitched by one run of the controller
MaxTries == 2                 \* largest max_iterations_before_fail configured
MaxPastes == 2                \* placements made by one run of the compositor
MaxMatches == 5               \* rows of ransac's matches, and its sample size
MaxIterations == 2            \* ransac's iterations argument
MaxRounds == 4                \* rounds of ransac the model follows
MaxPairs == 5                 \* rows of calculate_homography's pairs
MaxShiftPixels == 2           \* pixels of the images given to mean_shift_gray

Shapes == {<<1, 2>>, <<2, 1>>}           \* <<height, width>> of the images
Offsets == {-1, 0, 1}                     \* x_offset and y_offset of a placement
FramePixel == <<4, 0, 8, 255>>            \* the pixel of the controller's frames
\* the pixels of the compositor's images: empty, opaque, half transparent
Palette == {<<0, 0, 0, 0>>, <<4, 0, 8, 255>>, <<0, 6, 8, 128>>}
\* new_image_percentage configured: 0.75 (the default) and 0.5
Percentages == {[num |-> 3, den |-> 4], [num |-> 1, den |-> 2]}
PointCounts == {6, 16}                    \* initial_random_point_count configured
MatchCounts == {0, 4, 20}                 \* len(matches) an attempt can see

(***************************************************************************)
(* Images.                                                                 *)
(***************************************************************************)
Channels == 1..4
Pos(h, w) == (0..(h - 1)) \X (0..(w - 1))
ZeroPixel == <<0, 0, 0, 0>>
\* Python's None where an image is expected (self.full_image, stitcher.py:67).
NoImage == [h |-> 0, w |-> 0, den |-> 1, px |-> [q \in Pos(0, 0) |-> ZeroPixel]]
SolidImage(h, w, pixel) == [h |-> h, w |-> w, px |-> [q \in Pos(h, w) |-> pixel]]

(***************************************************************************)
(* Stitcher.__paste_image (stitcher.py:279-372).  Returns the new canvas   *)
(* and the placement (x_img, y_img).  `hist` is self.history, `full`       *)
(* self.full_image, `legacy` self.legacy_paste, `p` new_image_percentage.  *)
(***************************************************************************)

\* A slip of the blend: the weights p and 1 - p are applied everywhere, not
\* only where both the image and the canvas are present.
WeightedChannelAlwaysMixes(new, old, den, p) ==
    p.num * new * den + (p.den - p.num) * old

\* One channel of the weighted-overlap policy (stitcher.py:350-370), at
\* denominator den * p.den: new is the image's channel value, old the
\* numerator (over den) of the canvas region under it.  The filters are 1
\* where the value is > 0; their sum s is 0, 1 or 2; s > 1 is replaced by
\* p for the image and by 1 - p for the canvas.
WeightedChannel(new, old, den, p) ==
    LET s == (IF new > 0 THEN 1 ELSE 0) + (IF old > 0 THEN 1 ELSE 0)
    IN  IF s > 1
        THEN p.num * new * den + (p.den - p.num) * old
        ELSE s * new * den * p.den + old * s * p.den

\* One channel of the legacy policy (stitcher.py:337-348), at denominator
\* den * 255: alpha_new = alpha / 255.
LegacyChannel(new, alpha, old, den) ==
    alpha * new * den + old * (255 - alpha)

\* The factor by which a paste multiplies the canvas denominator.
PasteFactor(legacy, p) == IF legacy THEN 255 ELSE p.den

\* A slip of the geometry: the right and bottom edges are those of the new
\* image alone, not the larger of the canvas's and the image's.
PasteGeometryNoMax(full, hist, image, x_offset, y_offset, whole) ==
    LET last_record == hist[Len(hist)]
        last_x == IF whole THEN 0 ELSE last_record.x_warped
        last_y == IF whole THEN 0 ELSE last_record.y_warped
        x_left == Min(0, last_x - x_offset)
        y_top == Min(0, last_y - y_offset)
        x_right == last_x - x_offset + image.w
        y_bottom == last_y - y_offset + image.h
    IN  [new_width |-> x_right - x_left,
         new_height |-> y_bottom - y_top,
         x_full_image |-> -x_left,
         y_full_image |-> -y_top,
         x_img |-> -x_left + last_x - x_offset,
         y_img |-> -y_top + last_y - y_offset]

\* A slip of the placement: the image's position is not moved by the shift
\* of the old canvas.
PasteGeometryUnshifted(full, hist, image, x_offset, y_offset, whole) ==
    LET last_record == hist[Len(hist)]
        last_x == IF whole THEN 0 ELSE last_record.x_warped
        last_y == IF whole THEN 0 ELSE last_record.y_warped
        x_left == Min(0, last_x - x_offset)
        y_top == Min(0, last_y - y_offset)
        x_right == Max(full.w, last_x - x_offset + image.w)
        y_bottom == Max(full.h, last_y - y_offset + image.h)
    IN  [new_width |-> x_right - x_left,
         new_height |-> y_bottom - y_top,
         x_full_image |-> -x_left,
         y_full_image |-> -y_top,
         x_img |-> last_x - x_offset,
         y_img |-> last_y - y_offset]

\* The canvas geometry of a paste (stitcher.py:302-334).
PasteGeometry(full, hist, image, x_offset, y_offset, whole) ==
    LET height == full.h
        width == full.w
        img_height == image.h
        img_width == image.w
        last_record == hist[Len(hist)]
        last_x == IF whole THEN 0 ELSE last_record.x_warped
        last_y == IF whole THEN 0 ELSE last_record.y_warped
        x_left == Min(0, last_x - x_offset)
        y_top == Min(0, last_y - y_offset)
        x_right == Max(width, last_x - x_offset + img_width)
        y_bottom == Max(height, last_y - y_offset + img_height)
        x_full_image == -x_left
        y_full_image == -y_top
    IN  [new_width |-> x_right - x_left,
         new_height |-> y_bottom - y_top,
         x_full_image |-> x_full_image,
         y_full_image |-> y_full_image,
         x_img |-> x_full_image + last_x - x_offset,
         y_img |-> y_full_image + last_y - y_offset]

\* The new canvas (stitcher.py:320-370) with geometry g: the old canvas is
\* copied in at (x_full_image, y_full_image), then the image is blended into
\* its region at (x_img, y_img); the rest stays zero.
PasteCanvas(full, image, g, legacy, p) ==
    LET F == PasteFactor(legacy, p)
        yf == g.y_full_image
        xf == g.x_full_image
        yi == g.y_img
        xi == g.x_img
        \* the new canvas with the old one copied in (stitcher.py:325-330)
        copied == [q \in Pos(g.new_height, g.new_width) |->
                     IF /\ q[1] >= yf /\ q[1] < yf + full.h
                        /\ q[2] >= xf /\ q[2] < xf + full.w
                     THEN full.px[<<q[1] - yf, q[2] - xf>>]
                     ELSE ZeroPixel]
        InImg(q) == /\ q[1] >= yi /\ q[1] < yi + image.h
                    /\ q[2] >= xi /\ q[2] < xi + image.w
        Blend(new, old) ==
            IF legacy
            THEN [c \in Channels |-> LegacyChannel(new[c], new[4], old[c], full.den)]
            ELSE [c \in Channels |-> WeightedChannel(new[c], old[c], full.den, p)]
    IN  [h |-> g.new_height, w |-> g.new_width, den |-> full.den * F,
         px |-> [q \in Pos(g.new_height, g.new_width) |->
                    IF InImg(q)
                    THEN Blend(image.px[<<q[1] - yi, q[2] - xi>>], copied[q])
                    ELSE [c \in Channels |-> copied[q][c] * F]]]

PasteImage(full, hist, image, x_offset, y_offset, whole, legacy, p) ==
    IF full = NoImage
    THEN [full_image |-> [h |-> image.h, w |-> image.w, den |-> 1, px |-> image.px],
          x_img |-> 0, y_img |-> 0]
    ELSE LET g == PasteGeometry(full, hist, image, x_offset, y_offset, whole)
         IN  [full_image |-> PasteCanvas(full, image, g, legacy, p),
              x_img |-> g.x_img, y_img |-> g.y_img]

\* An ImageRecord (image_record.py:36-42): the placement and the size of the
\* warped image are what the controller reads back.
ImageRecord(warped_image, x_warped, y_warped) ==
    [x_warped |-> x_warped, y_warped |-> y_warped,
     w |-> warped_image.w, h |-> warped_image.h]


\* The arguments of a __paste_image call (stitcher.py:279-284).
PasteArgs(image, x_offset, y_offset, whole) ==
    [image |-> image, x_offset |-> x_offset, y_offset |-> y_offset, whole |-> whole]

(***************************************************************************)
(* Values of the variables of the parts a specification does not run.      *)
(***************************************************************************)
CallIdle ==
    /\ pc = "idle" /\ whole_image = FALSE /\ i = -1
    /\ random_point_count = 0 /\ matcher = "none" /\ ret = "none"
    /\ first_whole = FALSE /\ passes = 0 /\ attempts = 0 /\ shrinks = 0
    /\ history0 = <<>> /\ full_image0 = NoImage
    /\ pasted = PasteArgs(NoImage, 0, 0, FALSE)

NoRound == [did |-> "none", rank |-> -1]

RansacIdle ==
    /\ matches = [ndim |-> 2, n |-> 0] /\ r_count = 0 /\ r_iterations = 0
    /\ r_pc = "off" /\ r_i = 0 /\ r_rounds = 0 /\ r_last = NoRound
    /\ r_errors_of = "none"
    /\ best_inliers = None /\ r_result = "none"

FitIdle == h_pairs = 0 /\ h_result = "none"

ShiftIdle ==
    /\ ms_image = NoImage /\ ms_image0 = NoImage
    /\ ms_mean = 0 /\ ms_result = NoImage

(***************************************************************************)
(* Stitcher.__init__ (stitcher.py:27-80) with its default blend policy.    *)
(***************************************************************************)
DefaultPercentage == [num |-> 3, den |-> 4]     \* new_image_percentage = 0.75

StitcherInit ==
    /\ history = <<>>
    /\ full_image = NoImage
    /\ legacy_paste = FALSE
    /\ new_image_percentage = DefaultPercentage
    /\ stitch_with_whole_image_on_fail \in BOOLEAN
    /\ max_iterations_before_fail \in 1..MaxTries
    /\ initial_random_point_count \in PointCounts

(***************************************************************************)
(* Stitcher.stitch (stitcher.py:108-277).                                  *)
(***************************************************************************)

\* A slip of the append: the record overwrites the last one.
AppendRecordOverLast(hist, record) ==
    IF hist = <<>> THEN <<record>> ELSE [hist EXCEPT ![Len(hist)] = record]

\* self.history.append(record) (stitcher.py:125, 265)
AppendRecord(hist, record) == Append(hist, record)

\* The first frame (stitcher.py:123-136): the canvas becomes the image and
\* a record placed at (0, 0) is appended.
PlaceFirst(image) ==
    LET canvas == PasteImage(full_image, history, image, 0, 0, FALSE,
                             legacy_paste, new_image_percentage)
    IN  /\ full_image' = canvas.full_image
        /\ history' = AppendRecord(history, ImageRecord(image, 0, 0))
        /\ pasted' = PasteArgs(image, 0, 0, FALSE)

\* A warped frame (stitcher.py:253-277): pasted at the offsets the
\* homography gave, then recorded at the placement the paste returned.
PlaceWarped(warped_image, x_offset, y_offset, whole) ==
    LET canvas == PasteImage(full_image, history, warped_image, x_offset,
                             y_offset, whole, legacy_paste, new_image_percentage)
    IN  /\ full_image' = canvas.full_image
        /\ history' = AppendRecord(history,
                          ImageRecord(warped_image, canvas.x_img, canvas.y_img))
        /\ pasted' = PasteArgs(warped_image, x_offset, y_offset, whole)

Frames == {SolidImage(s[1], s[2], FramePixel) : s \in Shapes}

\* stitch(image, whole_image) on an empty history (stitcher.py:120-136).
StitchFirst ==
    /\ pc = "idle"
    /\ Len(history) = 0
    /\ \E image \in Frames, wi \in BOOLEAN :
          /\ PlaceFirst(image)
          /\ first_whole' = wi
    /\ ret' = "True"
    /\ history0' = history /\ full_image0' = full_image
    /\ passes' = 0 /\ attempts' = 0 /\ shrinks' = 0
    /\ UNCHANGED <<pc, whole_image, i, random_point_count, matcher>>
    /\ UNCHANGED <<legacy_paste, new_image_percentage,
                   stitch_with_whole_image_on_fail, max_iterations_before_fail,
                   initial_random_point_count>>
    /\ UNCHANGED <<ransacVars, fitVars, shiftVars>>

\* The set-up of a pass (stitcher.py:138-160).
BeginPass(whole) ==
    /\ pc' = "loop"
    /\ whole_image' = whole
    /\ i' = -1
    /\ random_point_count' = initial_random_point_count
    /\ matcher' = "none"
    /\ attempts' = 0
    /\ shrinks' = 0

\* stitch(image, whole_image) on a non-empty history, up to the loop.
StitchCall ==
    /\ pc = "idle"
    /\ Len(history) > 0
    /\ Len(history) < MaxFrames
    /\ \E wi \in BOOLEAN :
          /\ BeginPass(wi)
          /\ first_whole' = wi
    /\ ret' = "none"
    /\ passes' = 1
    /\ history0' = history /\ full_image0' = full_image
    /\ pasted' = PasteArgs(NoImage, 0, 0, FALSE)
    /\ UNCHANGED <<stitcherVars, ransacVars, fitVars, shiftVars>>

\* A return or an exception ends the call: its locals are gone.
EndCall(outcome) ==
    /\ pc' = "idle"
    /\ ret' = outcome
    /\ whole_image' = FALSE
    /\ i' = -1
    /\ random_point_count' = 0
    /\ matcher' = "none"
    /\ attempts' = 0
    /\ shrinks' = 0

\* while i < iterations (stitcher.py:154, 162)
LoopContinues == i < max_iterations_before_fail

\* A slip of the floor: the sample size is taken as it is.
FloorCountNone(c) == c

\* The floor of the sample size (stitcher.py:164-165).
FloorCount(c) == IF c < 4 THEN 4 ELSE c

\* A slip of the switch: the brute-force matcher comes one attempt late.
ChooseMatcherLate(idx) == IF idx > 2 THEN "bf" ELSE "flann"

\* The matcher of attempt idx (stitcher.py:168-170).
ChooseMatcher(idx) == IF idx >= 2 THEN "bf" ELSE "flann"

\* The head of a loop body (stitcher.py:163-177).
AttemptHead == pc = "loop" /\ LoopContinues

\* An attempt that ends in `continue`: back at the while test with the
\* sample size the attempt leaves.
AttemptContinues(count) ==
    /\ i' = i + 1
    /\ matcher' = ChooseMatcher(i + 1)
    /\ attempts' = attempts + 1
    /\ random_point_count' = count
    /\ UNCHANGED <<pc, whole_image, ret>>

\* What HomographyCalculator.ransac can hand the controller
\* (stitcher.py:184-189): a homography, None, or an exception raised inside
\* it.  The controller is modelled against all three; SpecEstimator models the
\* estimator itself.
RansacOutcomes == {"H", None, "raise"}

\* len(matches) < random_point_count (stitcher.py:180-182)
AttemptTooFewMatches ==
    /\ AttemptHead
    /\ \E n \in MatchCounts : n < FloorCount(random_point_count)
    /\ AttemptContinues(FloorCount(random_point_count) - 4)
    /\ shrinks' = shrinks + 1
    /\ UNCHANGED <<first_whole, passes, history0, full_image0, pasted>>
    /\ UNCHANGED <<stitcherVars, ransacVars, fitVars, shiftVars>>

\* homography is None (stitcher.py:192-194)
AttemptRansacNone ==
    /\ AttemptHead
    /\ \E n \in MatchCounts : n >= FloorCount(random_point_count)
    /\ None \in RansacOutcomes
    /\ AttemptContinues(FloorCount(random_point_count) - 4)
    /\ shrinks' = shrinks + 1
    /\ UNCHANGED <<first_whole, passes, history0, full_image0, pasted>>
    /\ UNCHANGED <<stitcherVars, ransacVars, fitVars, shiftVars>>

\* An exception leaves ransac and, uncaught, stitch (stitcher.py:184).
AttemptRansacRaises ==
    /\ AttemptHead
    /\ \E n \in MatchCounts : n >= FloorCount(random_point_count)
    /\ "raise" \in RansacOutcomes
    /\ EndCall("raise")
    /\ UNCHANGED <<first_whole, passes, history0, full_image0, pasted>>
    /\ UNCHANGED <<stitcherVars, ransacVars, fitVars, shiftVars>>

\* area_ratio < self.min_homography_determinant (stitcher.py:199-214)
AttemptAreaRejected ==
    /\ AttemptHead
    /\ \E n \in MatchCounts : n >= FloorCount(random_point_count)
    /\ "H" \in RansacOutcomes
    /\ AttemptContinues(FloorCount(random_point_count))
    /\ shrinks' = shrinks
    /\ UNCHANGED <<first_whole, passes, history0, full_image0, pasted>>
    /\ UNCHANGED <<stitcherVars, ransacVars, fitVars, shiftVars>>

\* found_homography = True; break (stitcher.py:215-216)
AttemptFound ==
    /\ AttemptHead
    /\ \E n \in MatchCounts : n >= FloorCount(random_point_count)
    /\ "H" \in RansacOutcomes
    /\ i' = i + 1
    /\ matcher' = ChooseMatcher(i + 1)
    /\ attempts' = attempts + 1
    /\ random_point_count' = FloorCount(random_point_count)
    /\ pc' = "found"
    /\ UNCHANGED <<whole_image, ret, first_whole, passes, shrinks, history0,
                   full_image0, pasted>>
    /\ UNCHANGED <<stitcherVars, ransacVars, fitVars, shiftVars>>

\* The translation and the warp (stitcher.py:219, 224-251).  They change
\* nothing of the stitcher; of the locals only whole_image, the offsets and
\* the warped image are read afterwards, the last two being drawn at the
\* paste.
StitchWarp ==
    /\ pc = "found"
    /\ pc' = "paste"
    /\ i' = -1
    /\ random_point_count' = 0
    /\ matcher' = "none"
    /\ attempts' = 0
    /\ shrinks' = 0
    /\ UNCHANGED <<whole_image, ret, first_whole, passes, history0, full_image0, pasted>>
    /\ UNCHANGED <<stitcherVars, ransacVars, fitVars, shiftVars>>

\* The paste and the record (stitcher.py:253-277).
StitchPlace ==
    /\ pc = "paste"
    /\ \E warped_image \in Frames, x_offset \in Offsets, y_offset \in Offsets :
          PlaceWarped(warped_image, x_offset, y_offset, whole_image)
    /\ EndCall("True")
    /\ UNCHANGED <<first_whole, passes, history0, full_image0>>
    /\ UNCHANGED <<legacy_paste, new_image_percentage,
                   stitch_with_whole_image_on_fail, max_iterations_before_fail,
                   initial_random_point_count>>
    /\ UNCHANGED <<ransacVars, fitVars, shiftVars>>

\* A slip of the fallback test: the pass's own whole_image is not read.
RetriesWholeAlways == stitch_with_whole_image_on_fail

\* not whole_image and self.stitch_with_whole_image_on_fail (stitcher.py:220)
RetriesWhole == ~whole_image /\ stitch_with_whole_image_on_fail

\* return self.stitch(image, True) (stitcher.py:219-221): the recursive
\* call runs stitcher.py:120-160 again with whole_image = True.
StitchRetryWhole ==
    /\ pc = "loop"
    /\ ~LoopContinues
    /\ RetriesWhole
    /\ BeginPass(TRUE)
    /\ passes' = passes + 1
    /\ UNCHANGED <<ret, first_whole, history0, full_image0, pasted>>
    /\ UNCHANGED <<stitcherVars, ransacVars, fitVars, shiftVars>>

\* return False (stitcher.py:219-222)
StitchFail ==
    /\ pc = "loop"
    /\ ~LoopContinues
    /\ ~RetriesWhole
    /\ EndCall("False")
    /\ UNCHANGED <<first_whole, passes, history0, full_image0, pasted>>
    /\ UNCHANGED <<stitcherVars, ransacVars, fitVars, shiftVars>>

Init == StitcherInit /\ CallIdle /\ RansacIdle /\ FitIdle /\ ShiftIdle

Next ==
    \/ StitchFirst
    \/ StitchCall
    \/ AttemptTooFewMatches
    \/ AttemptRansacNone
    \/ AttemptRansacRaises
    \/ AttemptAreaRejected
    \/ AttemptFound
    \/ StitchWarp
    \/ StitchPlace
    \/ StitchRetryWhole
    \/ StitchFail

Spec == Init /\ [][Next]_vars


(***************************************************************************)
(* Properties of the controller, checked under Spec.                       *)
(***************************************************************************)

IsPrefix(a, b) == Len(a) <= Len(b) /\ SubSeq(b, 1, Len(a)) = a

\* C1: a stitch call returns True if and only if exactly one record was
\* appended to History during the call (a call that fell back to the
\* whole-mosaic pass included); when it returns False, History and the
\* canvas are as they were before the call; the records History held before
\* the call are still there, in place and unchanged.
C1_TrueIffOneRecordAppended ==
    /\ IsPrefix(history0, history)
    /\ Len(history) <= Len(history0) + 1
    /\ (ret = "True") <=> (Len(history) = Len(history0) + 1)
    /\ ret = "False" => (history = history0 /\ full_image = full_image0)
    /\ ret # "True" => (history = history0 /\ full_image = full_image0)

C1_Witness ==
    /\ ret = "True" /\ passes = 2 /\ Len(history0) = 2 /\ Len(history) = 3
    /\ full_image # full_image0

\* C2: a stitch call runs at most two passes; the second pass starts only
\* from a pass against the previous frame (whole_image false) whose loop
\* ran out of attempts, with stitch_with_whole_image_on_fail set, and runs
\* against the whole mosaic; a pass against the whole mosaic that runs out
\* of attempts returns False and starts no other pass.
C2_AtMostTwoPasses ==
    /\ [](passes <= 2 /\ (passes = 2 => ~first_whole))
    /\ [][(passes' = 2 /\ passes # 2) =>
            /\ pc = "loop" /\ ~LoopContinues
            /\ ~whole_image /\ stitch_with_whole_image_on_fail
            /\ attempts > 0
            /\ whole_image']_vars
    /\ [][(pc = "loop" /\ ~LoopContinues /\ whole_image) =>
            (pc' = "idle" /\ ret' = "False" /\ passes' = passes)]_vars

C2_Witness ==
    /\ passes = 2 /\ pc = "loop" /\ ~LoopContinues /\ whole_image

\* C3: within one pass the number of attempts (loop bodies entered) is at
\* most max_iterations_before_fail, and a pass in which every attempt
\* failed made exactly that many.
C3_AtMostMaxAttempts ==
    /\ attempts <= max_iterations_before_fail
    /\ (pc = "loop" /\ ~LoopContinues) => attempts = max_iterations_before_fail

\* C6: after a placement that is not the first, the canvas is the union
\* bounding box of the previous canvas [0,W)x[0,H) and the new image at
\* (x, y) = reference origin minus offset: width max(W, x + w) - min(0, x),
\* height max(H, y + h) - min(0, y); neither is below what it was.
PlacedAfterFirst == pasted.image # NoImage /\ Len(history0) > 0

ReferenceX == IF pasted.whole THEN 0 ELSE history0[Len(history0)].x_warped
ReferenceY == IF pasted.whole THEN 0 ELSE history0[Len(history0)].y_warped
PlacedX == ReferenceX - pasted.x_offset
PlacedY == ReferenceY - pasted.y_offset

C6_CanvasIsUnionBox ==
    PlacedAfterFirst =>
        /\ full_image.w = Max(full_image0.w, PlacedX + pasted.image.w) - Min(0, PlacedX)
        /\ full_image.h = Max(full_image0.h, PlacedY + pasted.image.h) - Min(0, PlacedY)
        /\ full_image.w >= full_image0.w
        /\ full_image.h >= full_image0.h

C6_Witness ==
    /\ PlacedAfterFirst
    /\ Len(history0) = 2
    /\ ~pasted.whole
    /\ ReferenceX > 0
    /\ PlacedX + pasted.image.w > full_image0.w
    /\ PlacedY < 0
    /\ full_image.w > full_image0.w
    /\ full_image.h > full_image0.h

\* C13: in every attempt of a pass the sample size, which is compared with
\* the number of matches and handed to ransac, is max(4, S0 - 4*k), S0 being
\* initial_random_point_count and k the number of earlier attempts of the
\* pass that ended with too few matches or with ransac returning None; an
\* attempt rejected for its area ratio does not count, and the size is never
\* below 4.
SampleSize == Max(4, initial_random_point_count - 4 * shrinks)

C13_SampleSizeIsFlooredShrink ==
    /\ pc = "loop" => FloorCount(random_point_count) = SampleSize
    /\ pc = "found" => random_point_count = SampleSize
    /\ pc \in {"loop", "found"} => FloorCount(random_point_count) >= 4

C13_Witness ==
    /\ pc = "found"
    /\ attempts = 3
    /\ shrinks = 1
    /\ initial_random_point_count - 4 * shrinks < 4
    /\ random_point_count = 4

\* C14: in every pass the attempts of index 0 and 1 match with the FLANN
\* matcher and every attempt of index 2 or more with the brute-force
\* matcher, whatever ended the earlier attempts; the fallback pass starts
\* again at index 0 with the FLANN matcher.  (`matcher` is that of the
\* attempt last begun, whose index is attempts - 1.)
C14_MatcherByAttemptIndex ==
    pc \in {"loop", "found"} =>
        /\ i = attempts - 1
        /\ attempts = 0 => matcher = "none"
        /\ attempts \in {1, 2} => matcher = "flann"
        /\ attempts >= 3 => matcher = "bf"

C14_Witness ==
    /\ pc = "loop" /\ passes = 2 /\ whole_image
    /\ attempts = 3 /\ matcher = "bf" /\ shrinks = 1

\* C15: while History is not empty, the placement of its last record and
\* the size of that record's warped image lie inside the canvas:
\* 0 <= x_warped, 0 <= y_warped, x_warped + w <= canvas width and
\* y_warped + h <= canvas height; the placement of a paste that is not the
\* first is -x_left + reference_x - x_offset (and the same in y), the
\* reference being (0, 0) when whole_image is set.
LastRecord == history[Len(history)]

C15_LastRecordInsideCanvas ==
    Len(history) > 0 =>
        /\ 0 <= LastRecord.x_warped
        /\ 0 <= LastRecord.y_warped
        /\ LastRecord.x_warped + LastRecord.w <= full_image.w
        /\ LastRecord.y_warped + LastRecord.h <= full_image.h
        /\ (PlacedAfterFirst /\ Len(history) = Len(history0) + 1) =>
              /\ LastRecord.x_warped = -Min(0, PlacedX) + PlacedX
              /\ LastRecord.y_warped = -Min(0, PlacedY) + PlacedY

C15_Witness ==
    /\ Len(history) = 3
    /\ PlacedAfterFirst /\ Len(history) = Len(history0) + 1
    /\ ~pasted.whole
    /\ PlacedX < 0 /\ LastRecord.x_warped = 0
    /\ PlacedY > 0 /\ LastRecord.y_warped = PlacedY
    /\ LastRecord.w < full_image.w





(***************************************************************************)
(* The compositor on its own: the calls stitch makes to __paste_image and  *)
(* history.append (stitcher.py:124-135, 255-275), with images of any       *)
(* content and under either blend policy.                                  *)
(***************************************************************************)
PasteImages == {SolidImage(s[1], s[2], pixel) : s \in Shapes, pixel \in Palette}

PasteInit ==
    /\ history = <<>>
    /\ full_image = NoImage
    /\ legacy_paste \in BOOLEAN
    /\ new_image_percentage \in Percentages
    /\ stitch_with_whole_image_on_fail = TRUE
    /\ max_iterations_before_fail = 1
    /\ initial_random_point_count = 4
    /\ CallIdle /\ RansacIdle /\ FitIdle /\ ShiftIdle

\* self.__paste_image(current_image), then the record (stitcher.py:124-135)
PasteFirst ==
    /\ Len(history) = 0
    /\ \E image \in PasteImages : PlaceFirst(image)
    /\ history0' = history /\ full_image0' = full_image
    /\ UNCHANGED <<legacy_paste, new_image_percentage,
                   stitch_with_whole_image_on_fail, max_iterations_before_fail,
                   initial_random_point_count>>
    /\ UNCHANGED <<callVars, first_whole, passes, attempts, shrinks>>
    /\ UNCHANGED <<ransacVars, fitVars, shiftVars>>

\* self.__paste_image(warped_image, x_offset, y_offset, whole_image), then
\* the record (stitcher.py:255-275)
PasteNext ==
    /\ Len(history) > 0
    /\ Len(history) < MaxPastes
    /\ \E image \in PasteImages, x_offset \in Offsets, y_offset \in Offsets,
          whole \in BOOLEAN :
          PlaceWarped(image, x_offset, y_offset, whole)
    /\ history0' = history /\ full_image0' = full_image
    /\ UNCHANGED <<legacy_paste, new_image_percentage,
                   stitch_with_whole_image_on_fail, max_iterations_before_fail,
                   initial_random_point_count>>
    /\ UNCHANGED <<callVars, first_whole, passes, attempts, shrinks>>
    /\ UNCHANGED <<ransacVars, fitVars, shiftVars>>

PasteStep == PasteFirst \/ PasteNext

SpecPaste == PasteInit /\ [][PasteStep]_vars

(***************************************************************************)
(* Properties of the compositor, checked under SpecPaste.  A channel value *)
(* v of an image is the fraction v/1; a canvas numerator n is n/den.       *)
(***************************************************************************)

\* where the old canvas sits in the new one: (-x_left, -y_top)
ShiftX == -Min(0, PlacedX)
ShiftY == -Min(0, PlacedY)
\* where the new image sits in the new canvas
FootX == ShiftX + PlacedX
FootY == ShiftY + PlacedY

InFootprint(q) ==
    /\ q[1] >= FootY /\ q[1] < FootY + pasted.image.h
    /\ q[2] >= FootX /\ q[2] < FootX + pasted.image.w
InOldCanvas(q) ==
    /\ q[1] >= ShiftY /\ q[1] < ShiftY + full_image0.h
    /\ q[2] >= ShiftX /\ q[2] < ShiftX + full_image0.w

\* the pixel of the new image over position q of the new canvas
NewPixel(q) == pasted.image.px[<<q[1] - FootY, q[2] - FootX>>]
\* the pixel (numerators over full_image0.den) of the old canvas under q
OldPixel(q) == IF InOldCanvas(q)
               THEN full_image0.px[<<q[1] - ShiftY, q[2] - ShiftX>>]
               ELSE ZeroPixel

\* the new image's rectangle and the old canvas's do not meet
NoOverlap ==
    \/ PlacedX + pasted.image.w <= 0 \/ PlacedX >= full_image0.w
    \/ PlacedY + pasted.image.h <= 0 \/ PlacedY >= full_image0.h

RECURSIVE GCD(_, _)
GCD(a, b) == IF b = 0 THEN a ELSE GCD(b, a % b)

\* full_image.px[q][c] / full_image.den = num / den
CanvasIs(q, c, num, den) ==
    LET g == GCD(den, full_image.den)
    IN  full_image.px[q][c] * (den \div g) = num * (full_image.den \div g)

NonOverlapKept(footprint(_, _)) ==
    \A q \in DOMAIN full_image.px : \A c \in Channels :
        IF InFootprint(q) THEN footprint(q, c)
        ELSE IF InOldCanvas(q)
             THEN CanvasIs(q, c, OldPixel(q)[c], full_image0.den)
             ELSE full_image.px[q][c] = 0

FootprintIsImage(q, c) == CanvasIs(q, c, NewPixel(q)[c], 1)
FootprintIsAlphaImage(q, c) == CanvasIs(q, c, NewPixel(q)[4] * NewPixel(q)[c], 255)

\* C7 as stated: when the new image's footprint does not overlap the old
\* canvas, every pixel of the old canvas keeps its value at its shifted
\* position (-x_left, -y_top), every pixel of the footprint equals the
\* new image's pixel, and every other pixel is zero.
C7_NonOverlapPreserved ==
    (PlacedAfterFirst /\ NoOverlap) => NonOverlapKept(FootprintIsImage)

\* C7 as amended: the same under the weighted-overlap policy; under the
\* legacy policy a pixel of the footprint is the new image's pixel times
\* its alpha / 255.
C7_NonOverlapPreservedByPolicy ==
    (PlacedAfterFirst /\ NoOverlap) =>
        IF legacy_paste THEN NonOverlapKept(FootprintIsAlphaImage)
        ELSE NonOverlapKept(FootprintIsImage)

C7_Witness ==
    /\ PlacedAfterFirst /\ NoOverlap /\ ~legacy_paste
    /\ PlacedX < 0
    /\ \E q \in DOMAIN full_image.px : InFootprint(q) /\ NewPixel(q)[2] > 0
    /\ \E q \in DOMAIN full_image.px : InOldCanvas(q) /\ OldPixel(q)[1] > 0
    /\ \E q \in DOMAIN full_image.px : ~InFootprint(q) /\ ~InOldCanvas(q)

\* C8: under the weighted-overlap policy a pixel is present when one of
\* its channels is nonzero; in every channel a pixel of the footprint is
\* the new value when only the new pixel is present, the old value when
\* only the old pixel is present, p*new + (1-p)*old when both are, and
\* zero when neither is.
Present(pixel) == \E c \in Channels : pixel[c] # 0

C8_PerPixelPresence ==
    (PlacedAfterFirst /\ ~legacy_paste) =>
        \A q \in DOMAIN full_image.px : InFootprint(q) =>
            \A c \in Channels :
                LET new == NewPixel(q)[c]
                    old == OldPixel(q)[c]
                    p == new_image_percentage
                IN  CASE Present(NewPixel(q)) /\ ~Present(OldPixel(q)) ->
                            CanvasIs(q, c, new, 1)
                      [] ~Present(NewPixel(q)) /\ Present(OldPixel(q)) ->
                            CanvasIs(q, c, old, full_image0.den)
                      [] Present(NewPixel(q)) /\ Present(OldPixel(q)) ->
                            CanvasIs(q, c,
                                     p.num * new * full_image0.den + (p.den - p.num) * old,
                                     p.den * full_image0.den)
                      [] OTHER -> full_image.px[q][c] = 0


(***************************************************************************)
(* HomographyCalculator (homography_calculator.py).  The matrices are not  *)
(* computed: a fit is followed by whether it returns or raises, a          *)
(* candidate by the value numpy's matrix_rank gives for it.  `matches` is  *)
(* [ndim, n]: an array of n rows, either 2-D (n x 4 numbers, what          *)
(* Util.match returns) or 1-D (n objects, each a row of 4 numbers).        *)
(***************************************************************************)

\* calculate_homography(pairs) for pairs of n rows
\* (homography_calculator.py:42-74): two equation rows per pair, numpy's svd
\* of the stack, its last right singular vector reshaped and divided by its
\* last entry.  No count of pairs is tested; svd raises LinAlgError only for
\* the empty stack (np.array([]) is 1-D), and gives a 9 x 9 V for any other.
CalculateHomography(n) == IF n = 0 THEN "LinAlgError" ELSE "H"

\* np.random.choice(matches, replace=False, size=...)
\* (homography_calculator.py:97-100): numpy raises ValueError for an array
\* that is not 1-D and for a sample larger than the population.
RandomChoice(m, size) ==
    IF m.ndim # 1 THEN "ValueError"
    ELSE IF size > m.n THEN "ValueError"
    ELSE "points"

\* What np.linalg.matrix_rank can give for a fitted H
\* (homography_calculator.py:103).  H[2,2] is 1 after the division, so the
\* rank of a finite H is 1, 2 or 3.  The division by H[2,2] = 0 leaves inf
\* and nan in H, for which, depending on the LAPACK build, the svd inside
\* matrix_rank raises LinAlgError or gives nan and with it the rank 0.
FiniteRanks == 1..3
NonFiniteRanks == {0}

\* if np.linalg.matrix_rank(H): continue (homography_calculator.py:103-104)
SkipsCandidate(rank) == rank # 0

\* calculate_homography_error(points, H) (homography_calculator.py:10-40,
\* 106-108) for the sample of a 1-D matches: points[:, 0:2] raises IndexError.
\* (A 2-D matches never gets this far: RandomChoice.)
HomographyError(m) == IF m.ndim = 1 THEN "IndexError" ELSE "errors"

\* The array whose errors a round asks for: calculate_homography_error(
\* points, H) (homography_calculator.py:106-108), points being the sample.
ErrorsArgument == "points"

\* ransac's locals before its loop (homography_calculator.py:92-95)
RansacInit ==
    /\ matches \in [ndim : {1, 2}, n : 0..MaxMatches]
    /\ r_count \in 0..MaxMatches
    /\ r_iterations \in 0..MaxIterations
    /\ r_pc = "loop"
    /\ r_i = 0
    /\ r_rounds = 0
    /\ r_last = NoRound
    /\ r_errors_of = "none"
    /\ best_inliers = None
    /\ r_result = "none"

\* while i < iterations (homography_calculator.py:96)
RoundBegins == r_pc = "loop" /\ r_i < r_iterations /\ r_rounds < MaxRounds

RansacRaises(exception, rank) ==
    /\ r_pc' = "raised"
    /\ r_errors_of' = IF exception = "IndexError" THEN ErrorsArgument ELSE "none"
    /\ r_result' = exception
    /\ r_rounds' = r_rounds + 1
    /\ r_last' = [did |-> "raised", rank |-> rank]
    /\ UNCHANGED <<matches, r_count, r_iterations, r_i, best_inliers>>

\* the sample cannot be drawn (homography_calculator.py:97-100)
RansacSampleRaises ==
    /\ RoundBegins
    /\ RandomChoice(matches, r_count) = "ValueError"
    /\ RansacRaises("ValueError", -1)
    /\ UNCHANGED <<stitcherVars, callVars, bookVars, fitVars, shiftVars>>

\* the fit of the sample raises (homography_calculator.py:101)
RansacFitRaises ==
    /\ RoundBegins
    /\ RandomChoice(matches, r_count) = "points"
    /\ CalculateHomography(r_count) = "LinAlgError"
    /\ RansacRaises("LinAlgError", -1)
    /\ UNCHANGED <<stitcherVars, callVars, bookVars, fitVars, shiftVars>>

\* matrix_rank raises on a candidate that is not finite
\* (homography_calculator.py:103)
RansacRankRaises ==
    /\ RoundBegins
    /\ RandomChoice(matches, r_count) = "points"
    /\ CalculateHomography(r_count) = "H"
    /\ RansacRaises("LinAlgError", 0)
    /\ UNCHANGED <<stitcherVars, callVars, bookVars, fitVars, shiftVars>>

\* continue (homography_calculator.py:103-104): back at the while test,
\* i as it was
RansacSkipsRound ==
    /\ RoundBegins
    /\ RandomChoice(matches, r_count) = "points"
    /\ CalculateHomography(r_count) = "H"
    /\ \E rank \in FiniteRanks \cup NonFiniteRanks :
          /\ SkipsCandidate(rank)
          /\ r_last' = [did |-> "skipped", rank |-> rank]
    /\ r_errors_of' = "none"
    /\ r_rounds' = r_rounds + 1
    /\ UNCHANGED <<matches, r_count, r_iterations, r_pc, r_i, best_inliers, r_result>>
    /\ UNCHANGED <<stitcherVars, callVars, bookVars, fitVars, shiftVars>>

\* the candidate is not skipped and the errors of the sample are asked for
\* (homography_calculator.py:106-108)
RansacScoreRaises ==
    /\ RoundBegins
    /\ RandomChoice(matches, r_count) = "points"
    /\ CalculateHomography(r_count) = "H"
    /\ \E rank \in FiniteRanks \cup NonFiniteRanks :
          /\ ~SkipsCandidate(rank)
          /\ HomographyError(matches) = "IndexError"
          /\ RansacRaises("IndexError", rank)
    /\ UNCHANGED <<stitcherVars, callVars, bookVars, fitVars, shiftVars>>

\* the loop is left with best_inliers None (homography_calculator.py:119-120)
RansacReturnsNone ==
    /\ r_pc = "loop"
    /\ ~(r_i < r_iterations)
    /\ best_inliers = None
    /\ r_pc' = "returned"
    /\ r_result' = None
    /\ UNCHANGED <<matches, r_count, r_iterations, r_i, r_rounds, r_last,
                   r_errors_of, best_inliers>>
    /\ UNCHANGED <<stitcherVars, callVars, bookVars, fitVars, shiftVars>>

\* HomographyCalculator.calculate_homography(pairs) called by a client
FitCall ==
    /\ h_result = "none"
    /\ \E n \in 0..MaxPairs :
          /\ h_pairs' = n
          /\ h_result' = CalculateHomography(n)
    /\ UNCHANGED <<stitcherVars, callVars, bookVars, ransacVars, shiftVars>>

EstimatorInit ==
    /\ RansacInit /\ FitIdle
    /\ history = <<>> /\ full_image = NoImage /\ legacy_paste = FALSE
    /\ new_image_percentage = DefaultPercentage
    /\ stitch_with_whole_image_on_fail = TRUE
    /\ max_iterations_before_fail = 1
    /\ initial_random_point_count = 4
    /\ CallIdle /\ ShiftIdle

EstimatorStep ==
    \/ RansacSampleRaises
    \/ RansacFitRaises
    \/ RansacRankRaises
    \/ RansacSkipsRound
    \/ RansacScoreRaises
    \/ RansacReturnsNone
    \/ FitCall

SpecEstimator == EstimatorInit /\ [][EstimatorStep]_vars

(***************************************************************************)
(* Properties of the estimator, checked under SpecEstimator.               *)
(***************************************************************************)

\* C4: ransac performs exactly `iterations` rounds and then returns; every
\* round, a skipped one included, takes one unit of the iteration budget.
C4_EveryRoundTakesBudget ==
    /\ r_rounds <= r_iterations
    /\ r_last.did = "skipped" => r_i = r_rounds
    /\ r_pc = "returned" => r_rounds = r_iterations

\* C5: a homography fit asked for with fewer than 4 correspondences fails
\* loudly and gives no matrix.
C5_FitOfFewerThanFourFails ==
    (h_result # "none" /\ h_pairs < 4) => h_result # "H"

\* C10: a round's candidate is skipped exactly when it is degenerate (its
\* rank is below 3): a full-rank candidate is always scored, a degenerate
\* one never is.
C10_SkippedIffDegenerate ==
    /\ r_last.did = "skipped" => r_last.rank < 3
    /\ r_last.rank = 3 => r_last.did = "scored"

\* C11: a round whose candidate is not skipped is scored: the errors are
\* those of the full `matches`, not of the sample, and the inlier set is the
\* rows of `matches` whose own error is below the threshold.
C11_InliersOverAllMatches ==
    r_errors_of # "none" => (r_errors_of = "matches" /\ r_last.did = "scored")

\* C12: a call of ransac as stitch makes it (the 2-D matches of Util.match,
\* a sample of at least 4 and at most all of them) ends by returning: None
\* exactly when no scored round left a non-empty inlier set, otherwise the
\* refit over the best inlier set.
C12_ReturnsNoneOrBestRefit ==
    (/\ r_pc \in {"returned", "raised"}
     /\ matches.ndim = 2 /\ 4 <= r_count /\ r_count <= matches.n) =>
        /\ r_pc = "returned"
        /\ r_result = None <=> best_inliers = None




(***************************************************************************)
(* Util.mean_shift_gray (util.py:26-61; Brightness.mean_shift_gray in      *)
(* brighness.py:6-33 is the same code).  An image here is one row of       *)
(* pixels <<B, G, R>> or <<B, G, R, A>>.                                   *)
(***************************************************************************)

ShiftLevels == {0, 100, 250}              \* channel values of the images
ShiftTargets == {0, 110, 200, 255}        \* dest_mean
ShiftPos == Pos(1, MaxShiftPixels)

RECURSIVE SumOver(_, _)
SumOver(f, S) ==
    IF S = {} THEN 0
    ELSE LET q == CHOOSE x \in S : TRUE
         IN  f[q] + SumOver(f, S \ {q})

\* cv2.cvtColor(image, cv2.COLOR_BGR2BGRA) for a 3-channel image (util.py:36-37)
ToBGRA(pixel) == IF Len(pixel) = 3 THEN pixel \o <<255>> ELSE pixel

\* cv2.cvtColor(image, cv2.COLOR_BGRA2GRAY) (util.py:38) for 8-bit pixels:
\* OpenCV's fixed-point weights, which sum to 2^15, rounded to nearest.
Gray(pixel) ==
    (pixel[1] * 3735 + pixel[2] * 19235 + pixel[3] * 9798 + 16384) \div 32768

\* np.mean(gray) (util.py:40) is GraySum / the number of pixels
GraySum(image) == SumOver([q \in DOMAIN image.px |-> Gray(image.px[q])], DOMAIN image.px)
PixelCount(image) == image.h * image.w

\* x - delta_mean, delta_mean = mean - dest_mean (util.py:41, 45), times n
Shifted(x, sum, n, dest_mean) == x * n - sum + dest_mean * n

MeanShiftAdds(x, sum, n, dest_mean) ==
    LET y == x * n + sum - dest_mean * n
    IN  IF y < 0 THEN 0 ELSE IF y > 255 * n THEN 255 ELSE y \div n

\* the local mean_shift (util.py:44-50) and the store of its value into the
\* uint8 image (util.py:57-59), which drops the fraction
MeanShift(x, sum, n, dest_mean) ==
    LET y == Shifted(x, sum, n, dest_mean)
    IN  IF y < 0 THEN 0 ELSE IF y > 255 * n THEN 255 ELSE y \div n

\* mean_shift_gray(image, dest_mean): B, G and R shifted, A as it is
MeanShiftGray(image, dest_mean) ==
    LET bgra == [q \in DOMAIN image.px |-> ToBGRA(image.px[q])]
        sum  == GraySum([image EXCEPT !.px = bgra])
        n    == PixelCount(image)
    IN  [image EXCEPT !.px =
            [q \in DOMAIN image.px |->
                [c \in Channels |->
                    IF c = 4 THEN bgra[q][c]
                    ELSE MeanShift(bgra[q][c], sum, n, dest_mean)]]]

\* image.shape[2] == 3 is false (util.py:36): `image` is not rebound
WritesArgument(image) == \A q \in DOMAIN image.px : Len(image.px[q]) # 3

ShiftPixels ==
    (ShiftLevels \X ShiftLevels \X ShiftLevels)
    \cup (ShiftLevels \X ShiftLevels \X ShiftLevels \X {255})

ShiftInit ==
    /\ \E px \in [ShiftPos -> ShiftPixels] :
          /\ \A q \in ShiftPos : Len(px[q]) = Len(px[<<0, 0>>])
          /\ ms_image = [h |-> 1, w |-> MaxShiftPixels, den |-> 1, px |-> px]
    /\ ms_image0 = ms_image
    /\ ms_mean \in ShiftTargets
    /\ ms_result = NoImage
    /\ history = <<>> /\ full_image = NoImage /\ legacy_paste = FALSE
    /\ new_image_percentage = DefaultPercentage
    /\ stitch_with_whole_image_on_fail = TRUE
    /\ max_iterations_before_fail = 1
    /\ initial_random_point_count = 4
    /\ CallIdle /\ RansacIdle /\ FitIdle

\* A 3-channel argument is converted into a new array (util.py:36-37) and
\* stays as it was; a 4-channel argument is the array the shifted channels
\* are stored into (util.py:57-59) and the object returned (util.py:61).
ShiftCall ==
    /\ ms_result = NoImage
    /\ ms_result' = MeanShiftGray(ms_image, ms_mean)
    /\ ms_image' = IF WritesArgument(ms_image) THEN MeanShiftGray(ms_image, ms_mean)
                   ELSE ms_image
    /\ UNCHANGED <<ms_image0, ms_mean>>
    /\ UNCHANGED <<stitcherVars, callVars, bookVars, ransacVars, fitVars>>

SpecShift == ShiftInit /\ [][ShiftCall]_vars

(***************************************************************************)
(* Properties of mean_shift_gray, checked under SpecShift.                 *)
(***************************************************************************)

\* some shifted value of the call lies outside [0, 255]
Clamps ==
    LET n   == PixelCount(ms_image0)
        sum == GraySum(ms_image0)
    IN  \E q \in DOMAIN ms_image0.px : \E c \in 1..3 :
           LET y == Shifted(ms_image0.px[q][c], sum, n, ms_mean)
           IN  y < 0 \/ y > 255 * n

\* |mean of the result's gray - dest_mean| <= 1, times the number of pixels
MeanWithinOne ==
    LET n == PixelCount(ms_result)
        d == GraySum(ms_result) - ms_mean * n
    IN  -n <= d /\ d <= n

\* C9 as stated: the grayscale mean of the returned image is within 1 of
\* the target mean for every image and target, clamped values or not.
C9_MeanWithinOneAlways == ms_result # NoImage => MeanWithinOne

\* C9: the grayscale mean of the returned image is within 1 of the target
\* mean whenever no shifted channel value had to be clamped.
C9_MeanWithinOneUnclamped == (ms_result # NoImage /\ ~Clamps) => MeanWithinOne

\* a call that moved an image of non-integral gray mean without clamping
C9_Witness ==
    /\ ms_result # NoImage
    /\ ms_image = ms_result /\ ms_image # ms_image0
    /\ ~Clamps
    /\ GraySum(ms_image0) % PixelCount(ms_image0) # 0
    /\ ms_result.px # [q \in DOMAIN ms_image0.px |-> ToBGRA(ms_image0.px[q])]

=============================================================================
